---- MODULE Spec2Model ----
(***************************************************************************)
(* Model of context-rot-detection: the profile resolver                    *)
(* (huggingface-resolver.ts, degradation-curves.ts), the health assessment *)
(* (quality-estimation.ts, recommendations.ts), the health history store   *)
(* and the check_my_health handler of the server.                          *)
(*                                                                         *)
(* Representation of JavaScript values:                                    *)
(*   - a string is a tuple of chunks; the chunk "/" is the slash character *)
(*     and every other chunk is a non-empty run of non-slash characters,   *)
(*     so "org/model" is <<"org", "/", "model">> and "" is << >>;          *)
(*   - a JSON value is a record [kind, num], kind one of "undefined" (the  *)
(*     property is absent), "null", "string", "number";                    *)
(*   - the fractions 0.40, 0.90 ... are kept in hundredths (40, 90).       *)
(***************************************************************************)
EXTENDS Integers, Sequences, FiniteSets, TLC

(***************************************************************************)
(* Bounds of the model.                                                    *)
(***************************************************************************)
\* The resolveModelProfile calls that may suspend on a promise.
MaxCalls == 2

\* Two resolver instances built on one database, as main() builds one and the
\* cache-persistence test a second on the same database.
Resolvers == {1, 2}

(***************************************************************************)
(* JavaScript values.                                                      *)
(***************************************************************************)
Str(s) == <<s>>
Slash == "/"
Null == [kind |-> "null", num |-> 0]
Undefined == [kind |-> "undefined", num |-> 0]
SomeString == [kind |-> "string", num |-> 0]
\* A string value whose characters matter (an agent id, a model id): s is
\* the tuple of its chunks, << >> the empty string.
StringValue(s) == [kind |-> "string", str |-> s]
Num(n) == [kind |-> "number", num |-> n]

(***************************************************************************)
(* degradation-curves.ts                                                   *)
(***************************************************************************)
Profile(n, mt, onset, dz, mlc, bra) ==
  [name |-> Str(n), maxTokens |-> mt, degradationOnset |-> onset,
   dangerZone |-> dz, middleLossCoefficient |-> mlc,
   baseRetrievalAccuracy |-> bra]

MODEL_PROFILES ==
  ("claude-3.5-sonnet" :> Profile("Claude 3.5 Sonnet", 200000, 120000, 152000, 35, 95)) @@
  ("claude-3.7-sonnet" :> Profile("Claude 3.7 Sonnet", 200000, 130000, 160000, 30, 96)) @@
  ("claude-sonnet-4" :> Profile("Claude Sonnet 4", 200000, 135000, 165000, 28, 96)) @@
  ("claude-opus-4" :> Profile("Claude Opus 4", 200000, 140000, 170000, 25, 97)) @@
  ("claude-opus-4-5" :> Profile("Claude Opus 4.5", 200000, 145000, 175000, 22, 97)) @@
  ("claude-haiku-3.5" :> Profile("Claude Haiku 3.5", 200000, 100000, 130000, 40, 92)) @@
  ("gpt-4o" :> Profile("GPT-4o", 128000, 80000, 105000, 40, 93)) @@
  ("gpt-4o-mini" :> Profile("GPT-4o Mini", 128000, 70000, 95000, 45, 90)) @@
  ("gpt-4.1" :> Profile("GPT-4.1", 1000000, 200000, 500000, 38, 94)) @@
  ("gpt-4.1-mini" :> Profile("GPT-4.1 Mini", 1000000, 180000, 450000, 42, 91)) @@
  ("o3" :> Profile("o3", 200000, 120000, 160000, 30, 95)) @@
  ("o4-mini" :> Profile("o4-mini", 200000, 110000, 150000, 35, 93)) @@
  ("gemini-2.0-flash" :> Profile("Gemini 2.0 Flash", 1000000, 200000, 500000, 50, 88)) @@
  ("gemini-2.5-pro" :> Profile("Gemini 2.5 Pro", 1000000, 250000, 600000, 42, 92)) @@
  ("gemini-2.5-flash" :> Profile("Gemini 2.5 Flash", 1000000, 220000, 520000, 48, 89)) @@
  ("other" :> Profile("Unknown Model", 128000, 80000, 100000, 40, 90))

KNOWN_MODELS == DOMAIN MODEL_PROFILES \ {"other"}

\* MODEL_PROFILES is an object literal, so MODEL_PROFILES[model] also finds
\* the members its prototype (Object.prototype) provides: the property
\* "constructor" is the function Object, "toString" the function toString.
\* Each is a function object whose only profile-like property is its name.
ObjectPrototypeMembers ==
  ("constructor" :> [name |-> Str("Object"), inherited |-> TRUE]) @@
  ("toString" :> [name |-> Str("toString"), inherited |-> TRUE])

getModelProfileIgnoringCatalog(model) ==
  MODEL_PROFILES["other"]

getModelProfile(model) ==
  IF Len(model) = 1 /\ model[1] \in DOMAIN MODEL_PROFILES
    THEN MODEL_PROFILES[model[1]]
  ELSE IF Len(model) = 1 /\ model[1] \in DOMAIN ObjectPrototypeMembers
    THEN ObjectPrototypeMembers[model[1]]
  ELSE MODEL_PROFILES["other"]

\* Math.round(x) for x = a / 100 with a >= 0: halves round up.
RoundHundredths(a) == (a + 50) \div 100

generateHeuristicProfileTruncating(name, maxTokens) ==
  [name |-> name, maxTokens |-> maxTokens,
   degradationOnset |-> (maxTokens * 65) \div 100,
   dangerZone |-> (maxTokens * 80) \div 100,
   middleLossCoefficient |-> 40,
   baseRetrievalAccuracy |-> 90]

generateHeuristicProfile(name, maxTokens) ==
  [name |-> name, maxTokens |-> maxTokens,
   degradationOnset |-> RoundHundredths(maxTokens * 65),
   dangerZone |-> RoundHundredths(maxTokens * 80),
   middleLossCoefficient |-> 40,
   baseRetrievalAccuracy |-> 90]

(***************************************************************************)
(* huggingface-resolver.ts: pure helpers                                   *)
(***************************************************************************)
HUGGINGFACE_TIMEOUT_MS == 5000

HasSlash(s) == \E i \in DOMAIN s : s[i] = Slash
FirstSlash(s) == CHOOSE i \in DOMAIN s : s[i] = Slash /\ \A j \in 1..(i - 1) : s[j] # Slash

\* String.prototype.split("/"): the pieces between the slashes, empty pieces
\* included, so the result always has one element more than there are slashes.
RECURSIVE Split(_)
Split(s) ==
  IF ~HasSlash(s) THEN <<s>>
  ELSE <<SubSeq(s, 1, FirstSlash(s) - 1)>> \o Split(SubSeq(s, FirstSlash(s) + 1, Len(s)))

looksLikeThreeParts(model) ==
  LET parts == Split(model)
  IN  Len(parts) = 3 /\ Len(parts[1]) > 0 /\ Len(parts[2]) > 0

looksLikeHuggingFaceRepoId(model) ==
  LET parts == Split(model)
  IN  Len(parts) = 2 /\ Len(parts[1]) > 0 /\ Len(parts[2]) > 0

\* a ?? b
Coalesce(a, b) == IF a.kind \in {"undefined", "null"} THEN b ELSE a

extractMaxTokens(config) ==
  LET value == Coalesce(config.max_position_embeddings,
                 Coalesce(config.n_positions,
                   Coalesce(config.max_seq_len, Null)))
  IN  IF value.kind # "number" \/ value.num <= 0 THEN Null ELSE value

\* JSON.stringify(profile): the own properties in insertion order.
JSONStringify(profile) ==
  << <<"name", profile.name>>,
     <<"maxTokens", profile.maxTokens>>,
     <<"degradationOnset", profile.degradationOnset>>,
     <<"dangerZone", profile.dangerZone>>,
     <<"middleLossCoefficient", profile.middleLossCoefficient>>,
     <<"baseRetrievalAccuracy", profile.baseRetrievalAccuracy>> >>

\* JSON.parse(text): an object with one property per member of the text.
JSONParse(text) ==
  [k \in {text[i][1] : i \in DOMAIN text} |->
     text[CHOOSE i \in DOMAIN text : text[i][1] = k][2]]

(***************************************************************************)
(* The remote config.json and the outcomes of one fetch.                   *)
(***************************************************************************)
Config(mpe, np, msl) ==
  [max_position_embeddings |-> mpe, n_positions |-> np, max_seq_len |-> msl]

EmptyConfig == Config(Undefined, Undefined, Undefined)

\* Outcomes of fetch(url) followed by response.json().
Outcome(kind, config) == [kind |-> kind, config |-> config]

FailureKinds == {"non2xx", "timeout", "network_error"}

\* The configs a remote repository serves in the resolver model.
ServedConfigs ==
  { Config(Num(2048), Undefined, Undefined),
    EmptyConfig,
    Config(Num(0), Undefined, Undefined),
    Config(Num(0 - 1), Undefined, Undefined) }

FetchOutcomes ==
  {Outcome(k, EmptyConfig) : k \in FailureKinds} \cup
  {Outcome("ok", c) : c \in ServedConfigs}

\* What fetchHuggingFaceConfig returns for an outcome of the fetch: every
\* failure is caught and becomes null.
fetchHuggingFaceConfig(outcome) ==
  IF outcome.kind # "ok" THEN Null ELSE extractMaxTokens(outcome.config)

\* The values a field of config.json takes in the model of extractMaxTokens.
FieldValues ==
  {Undefined, Null, SomeString, Num(0), Num(0 - 1), Num(1024), Num(4096)}

AllConfigs ==
  {Config(mpe, np, msl) : mpe \in FieldValues, np \in FieldValues, msl \in FieldValues}

(***************************************************************************)
(* The model strings the callers pass to resolveModelProfile.              *)
(***************************************************************************)
CuratedModel == Str("claude-opus-4")
PlainModel == Str("llama-4")
InheritedName == Str("constructor")
RepoA == <<"org", Slash, "model">>
RepoB == <<"meta", Slash, "llama">>
ThreeSegments == <<"a", Slash, "b", Slash, "c">>
EmptySegment == <<"org", Slash>>

ModelStrings ==
  {CuratedModel, PlainModel, InheritedName, RepoA, RepoB, ThreeSegments, EmptySegment}

\* The inputs of the two specifications of the resolver: strings of every
\* shape with one repository, and two repositories.
ShapeInputs == ModelStrings \ {RepoB}
RepoInputs == {RepoA, RepoB}

(***************************************************************************)
(* degradation-curves.ts: the curves.  A quality multiplier and a          *)
(* retrieval accuracy are kept in thousandths (1.0 is 1000, 0.2 is 200),   *)
(* and every intermediate quotient is truncated to thousandths.            *)
(***************************************************************************)
Max(a, b) == IF a >= b THEN a ELSE b
Min(a, b) == IF a <= b THEN a ELSE b

\* The integer square root of n, searched between lo and hi.
RECURSIVE SqrtBetween(_, _, _)
SqrtBetween(n, lo, hi) ==
  IF lo >= hi THEN lo
  ELSE LET mid == (lo + hi + 1) \div 2
       IN  IF mid * mid <= n THEN SqrtBetween(n, mid, hi)
           ELSE SqrtBetween(n, lo, mid - 1)

\* Math.pow(progress, 1.5) for a progress in thousandths, 0 <= progress <= 1000:
\* progress * sqrt(progress).
Pow15(progress) == (progress * SqrtBetween(progress * 1000, 0, 1000)) \div 1000

calculateQualityMultiplierConstant(tokenCount, profile) ==
  1000

calculateQualityMultiplier(tokenCount, profile) ==
  IF tokenCount <= profile.degradationOnset THEN 1000
  ELSE IF tokenCount >= profile.maxTokens THEN 200
  ELSE LET range == profile.maxTokens - profile.degradationOnset
           progress == ((tokenCount - profile.degradationOnset) * 1000) \div range
           degradation == Pow15(progress)
       IN  Max(200, 1000 - (degradation * 8) \div 10)

\* middlePenalty is middleLossCoefficient * excess / range; with a range of 0
\* (maxTokens = degradationOnset) the quotient is Infinity and the accuracy
\* is the floor 0.1.
estimateRetrievalAccuracy(tokenCount, profile) ==
  LET qualityMult == calculateQualityMultiplier(tokenCount, profile)
      range == profile.maxTokens - profile.degradationOnset
      excess == tokenCount - profile.degradationOnset
  IN  IF tokenCount > profile.degradationOnset /\ range = 0 THEN 100
      ELSE LET middlePenalty ==
                 IF tokenCount > profile.degradationOnset
                   THEN (profile.middleLossCoefficient * 10 * excess) \div range
                   ELSE 0
           IN  Max(100, (profile.baseRetrievalAccuracy * qualityMult) \div 100 - middlePenalty)

(***************************************************************************)
(* quality-estimation.ts                                                   *)
(***************************************************************************)
RiskLevel == {"low", "moderate", "high", "critical"}

calculateMiddleContentRisk(tokenCount, profile) ==
  IF 10 * tokenCount < 3 * profile.maxTokens THEN "low"
  ELSE IF 2 * tokenCount < profile.maxTokens THEN "moderate"
  ELSE IF 4 * tokenCount < 3 * profile.maxTokens THEN "high"
  ELSE "critical"

calculateHallucinationRisk(retrievalAccuracy, toolCallBurden) ==
  LET toolPenalty == IF toolCallBurden = "critical" THEN 150
                     ELSE IF toolCallBurden = "high" THEN 100
                     ELSE IF toolCallBurden = "moderate" THEN 50
                     ELSE 0
      adjustedAccuracy == retrievalAccuracy - toolPenalty
  IN  IF adjustedAccuracy > 850 THEN "low"
      ELSE IF adjustedAccuracy > 700 THEN "moderate"
      ELSE IF adjustedAccuracy > 500 THEN "high"
      ELSE "critical"

calculateToolCallBurdenFrom10(toolCallsCount) ==
  IF toolCallsCount <= 10 THEN "low"
  ELSE IF toolCallsCount <= 20 THEN "moderate"
  ELSE IF toolCallsCount <= 30 THEN "high"
  ELSE "critical"

calculateToolCallBurden(toolCallsCount) ==
  IF toolCallsCount <= 5 THEN "low"
  ELSE IF toolCallsCount <= 15 THEN "moderate"
  ELSE IF toolCallsCount <= 30 THEN "high"
  ELSE "critical"

calculateSessionLengthRisk(durationMinutes) ==
  IF durationMinutes <= 15 THEN "low"
  ELSE IF durationMinutes <= 45 THEN "moderate"
  ELSE IF durationMinutes <= 90 THEN "high"
  ELSE "critical"

retrievalAccuracyToStatus(accuracy) ==
  IF accuracy > 900 THEN "excellent"
  ELSE IF accuracy > 750 THEN "good"
  ELSE IF accuracy > 550 THEN "degrading"
  ELSE "poor"

sessionFatigueRecommendation(toolBurden, sessionRisk) ==
  IF toolBurden = "critical" \/ sessionRisk = "critical"
    THEN "Session is critically fatigued."
  ELSE IF toolBurden = "high" \/ sessionRisk = "high"
    THEN "Significant session fatigue detected."
  ELSE IF toolBurden = "moderate" \/ sessionRisk = "moderate"
    THEN "Consider breaking into sub-tasks if complexity increases."
  ELSE "Session fatigue is low. Continue as normal."

computeHealthScoreUnweighted(qualityMultiplier, retrievalAccuracy, toolCallsCount, sessionDurationMinutes) ==
  (qualityMultiplier * 100 + retrievalAccuracy * 100 + 500) \div 1000

\* The sum is in thousandths of a point; Math.round rounds it to points.
computeHealthScore(qualityMultiplier, retrievalAccuracy, toolCallsCount, sessionDurationMinutes) ==
  LET tokenScore == qualityMultiplier * 40
      retrievalScore == retrievalAccuracy * 25
      toolScore == IF toolCallsCount <= 5 THEN 20
                   ELSE IF toolCallsCount <= 15 THEN 15
                   ELSE IF toolCallsCount <= 30 THEN 8
                   ELSE 3
      sessionScore == IF sessionDurationMinutes <= 15 THEN 15
                      ELSE IF sessionDurationMinutes <= 45 THEN 12
                      ELSE IF sessionDurationMinutes <= 90 THEN 6
                      ELSE 2
      total == tokenScore + retrievalScore + 1000 * toolScore + 1000 * sessionScore
  IN  (Max(0, Min(100000, total)) + 500) \div 1000

scoreToStatusHealthyFrom60(score) ==
  IF score >= 60 THEN "healthy"
  ELSE IF score >= 40 THEN "warning"
  ELSE "danger"

scoreToStatusHealthyFrom90(score) ==
  IF score >= 90 THEN "healthy"
  ELSE IF score >= 40 THEN "warning"
  ELSE "danger"

scoreToStatus(score) ==
  IF score >= 70 THEN "healthy"
  ELSE IF score >= 40 THEN "warning"
  ELSE "danger"

\* An AssessmentInput: the optional fields are JSON values, Undefined when
\* omitted.
AssessmentInput(tokenCount, model, sessionDurationMinutes, toolCallsCount) ==
  [tokenCount |-> tokenCount, model |-> model,
   sessionDurationMinutes |-> sessionDurationMinutes,
   toolCallsCount |-> toolCallsCount]

\* assessHealth once the profile of input.model is resolved.  percentage is
\* kept in tenths of a percent: Math.round(tokenCount / dangerZone * 1000).
assessHealth(input, profile) ==
  LET toolCallsCount == Coalesce(input.toolCallsCount, Num(0)).num
      sessionDurationMinutes == Coalesce(input.sessionDurationMinutes, Num(0)).num
      qualityMultiplier == calculateQualityMultiplier(input.tokenCount, profile)
      retrievalAccuracy == estimateRetrievalAccuracy(input.tokenCount, profile)
      toolBurden == calculateToolCallBurden(toolCallsCount)
      sessionRisk == calculateSessionLengthRisk(sessionDurationMinutes)
      healthScore == computeHealthScore(qualityMultiplier, retrievalAccuracy,
                                        toolCallsCount, sessionDurationMinutes)
      middleRisk == calculateMiddleContentRisk(input.tokenCount, profile)
      hallucinationRisk == calculateHallucinationRisk(retrievalAccuracy, toolBurden)
  IN  [health_score |-> healthScore,
       status |-> scoreToStatus(healthScore),
       token_utilization |->
         [current |-> input.tokenCount,
          max_effective |-> profile.dangerZone,
          percentage |-> (input.tokenCount * 1000 + profile.dangerZone \div 2)
                           \div profile.dangerZone,
          danger_zone_starts_at |-> profile.dangerZone],
       quality_estimate |->
         [retrieval_accuracy |-> retrievalAccuracyToStatus(retrievalAccuracy),
          middle_content_risk |-> middleRisk,
          estimated_hallucination_risk |-> hallucinationRisk],
       session_fatigue |->
         [tool_call_burden |-> toolBurden,
          session_length_risk |-> sessionRisk,
          recommendation |-> sessionFatigueRecommendation(toolBurden, sessionRisk)]]

(***************************************************************************)
(* recommendations.ts                                                      *)
(***************************************************************************)
Recommendation(priority, action, reason, estimated_quality_gain) ==
  [priority |-> priority, action |-> action, reason |-> reason,
   estimated_quality_gain |-> estimated_quality_gain]

riskToPriorityAlwaysHigh(risk) ==
  "high"

riskToPriority(risk) ==
  CASE risk = "critical" -> "critical"
    [] risk = "high" -> "high"
    [] risk = "moderate" -> "medium"
    [] risk = "low" -> "low"

priorityWeightReversed(p) ==
  CASE p = "critical" -> 3
    [] p = "high" -> 2
    [] p = "medium" -> 1
    [] p = "low" -> 0

priorityWeight(p) ==
  CASE p = "critical" -> 0
    [] p = "high" -> 1
    [] p = "medium" -> 2
    [] p = "low" -> 3

\* The comparator handed to recs.sort.
compareRecs(a, b) ==
  LET pw == priorityWeight(a.priority) - priorityWeight(b.priority)
  IN  IF pw # 0 THEN pw ELSE b.estimated_quality_gain - a.estimated_quality_gain

\* Array.prototype.sort is stable: rec goes behind every element that does
\* not compare greater than it.
RECURSIVE InsertRec(_, _)
InsertRec(rec, sorted) ==
  IF sorted = << >> THEN <<rec>>
  ELSE IF compareRecs(Head(sorted), rec) <= 0
    THEN <<Head(sorted)>> \o InsertRec(rec, Tail(sorted))
  ELSE <<rec>> \o sorted

RECURSIVE sort(_)
sort(recs) ==
  IF recs = << >> THEN << >>
  ELSE InsertRec(recs[Len(recs)], sort(SubSeq(recs, 1, Len(recs) - 1)))

\* The if / else-if ladder on token_utilization.percentage (in tenths).
utilizationRecs(utilPct) ==
  IF utilPct >= 1000
    THEN <<Recommendation("critical", "immediate_context_reset",
                          "You have exceeded the effective quality threshold.", 40)>>
  ELSE IF utilPct >= 800
    THEN <<Recommendation("critical", "compact_context",
                          "You are deep in the danger zone.", 25)>>
  ELSE IF utilPct >= 600
    THEN <<Recommendation("high", "compact_context",
                          "You are approaching the effective quality threshold.", 15)>>
  ELSE IF utilPct >= 400
    THEN <<Recommendation("medium", "plan_compaction",
                          "Token usage is moderate.", 5)>>
  ELSE << >>

\* One of the four risk blocks: pushed when the risk is high or critical.
riskRecs(risk, action, reason, estimated_quality_gain) ==
  IF risk = "high" \/ risk = "critical"
    THEN <<Recommendation(riskToPriority(risk), action, reason, estimated_quality_gain)>>
  ELSE << >>

continueRec ==
  Recommendation("low", "continue", "Context health is good.", 0)

generateRecommendationsAlwaysContinue(assessment) ==
  sort(utilizationRecs(assessment.token_utilization.percentage) \o <<continueRec>>)

generateRecommendations(assessment) ==
  LET pushed ==
        utilizationRecs(assessment.token_utilization.percentage) \o
        riskRecs(assessment.quality_estimate.middle_content_risk,
                 "offload_to_memory", "High risk of lost-in-the-middle effect.", 8) \o
        riskRecs(assessment.session_fatigue.tool_call_burden,
                 "break_into_subtasks", "High number of tool calls.", 12) \o
        riskRecs(assessment.session_fatigue.session_length_risk,
                 "session_checkpoint", "This session has been running for a long time.", 10) \o
        riskRecs(assessment.quality_estimate.estimated_hallucination_risk,
                 "verify_outputs", "Elevated hallucination risk detected.", 5)
      recs == IF Len(pushed) = 0 THEN <<continueRec>> ELSE pushed
  IN  sort(recs)

(***************************************************************************)
(* The inputs of assessHealth and of generateRecommendations.              *)
(***************************************************************************)
TokenCounts ==
  {1, 2, 3, 600, 1000, 1331, 1500, 1638, 2000, 2048, 5000, 50000, 60000,
   68000, 80000, 100000, 100001, 102000, 136000, 140000, 150000, 170000, 190000,
   195000, 200000, 500000, 1000000, 2000000}

\* An omitted count, and the counts on both sides of each threshold.
ToolCallCounts == {Undefined, Num(5), Num(6), Num(15), Num(16), Num(30), Num(31)}
SessionMinutes == {Undefined, Num(15), Num(16), Num(45), Num(46), Num(90), Num(91)}

AssessModels == {Str(id) : id \in DOMAIN MODEL_PROFILES} \cup {PlainModel, RepoA}

\* The context lengths of the heuristic profiles that are assessed.
AssessLengths == {1, 3, 2048}

\* The profiles resolveModelProfile returns for a model: the catalog's, or
\* for a repository id the fallback or a heuristic profile.
ResolvableProfiles(model) ==
  IF getModelProfile(model).name = Str("Unknown Model") /\ looksLikeHuggingFaceRepoId(model)
    THEN {getModelProfile(model)} \cup
         {generateHeuristicProfile(model, M) : M \in AssessLengths}
  ELSE {getModelProfile(model)}

AssessmentInputs ==
  {AssessmentInput(t, m, d, c) :
     t \in TokenCounts, m \in AssessModels, d \in SessionMinutes, c \in ToolCallCounts}

\* token_utilization.percentage values (tenths of a percent) on both sides
\* of each threshold of the ladder.
UtilizationPercentages == {0, 399, 400, 599, 600, 799, 800, 999, 1000, 1500}

\* Every HealthAssessment as far as generateRecommendations reads it.
AnyAssessment(pct, middle, hallucination, burden, session) ==
  [health_score |-> 50,
   status |-> "warning",
   token_utilization |->
     [current |-> pct, max_effective |-> 1000, percentage |-> pct,
      danger_zone_starts_at |-> 1000],
   quality_estimate |->
     [retrieval_accuracy |-> "good",
      middle_content_risk |-> middle,
      estimated_hallucination_risk |-> hallucination],
   session_fatigue |->
     [tool_call_burden |-> burden,
      session_length_risk |-> session,
      recommendation |-> sessionFatigueRecommendation(burden, session)]]

AllAssessments ==
  {AnyAssessment(pct, middle, hallucination, burden, session) :
     pct \in UtilizationPercentages, middle \in RiskLevel, hallucination \in RiskLevel,
     burden \in RiskLevel, session \in RiskLevel}

(***************************************************************************)
(* State.                                                                  *)
(*   db                 TRUE when the resolvers are built on a database    *)
(*                      (they share it), FALSE when built with null        *)
(*   cache              the rows of hf_model_cache, by repo_id             *)
(*   inFlightRequests   per resolver, the promise registered for a model   *)
(*                      (0: no entry)                                      *)
(*   promises           the promises returned by fetchAndCache, in order   *)
(*                      of creation; wrote: cacheProfile stored a row;     *)
(*                      rowBefore, rowAfter: the row of the key before and *)
(*                      after fetchAndCache resumed                        *)
(*   calls              the resolveModelProfile calls that suspended on a  *)
(*                      promise, in order of call                          *)
(*   returned           the latest call that returned without suspending   *)
(*   firstResolved      per model, the profile of the first successful     *)
(*                      remote resolution (history)                        *)
(*   config, extracted  an input of extractMaxTokens and its result        *)
(*   input, resolved    an input of assessHealth and the profile resolved  *)
(*                      for its model                                      *)
(*   assessment         the HealthAssessment computed (or handed to        *)
(*                      generateRecommendations)                           *)
(*   recs               the list generateRecommendations returned          *)
(*   stage              how far a health check has come: "idle",           *)
(*                      "input", "assessed", "recommended", and in the     *)
(*                      check_my_health handler "recorded", "logged",      *)
(*                      "responded"; "curve" and "sampled" while a curve   *)
(*                      is sampled                                         *)
(*   curve              two token counts and the quality multiplier of     *)
(*                      the resolved profile at each                       *)
(*   clock              SQLite's datetime('now'), in seconds               *)
(*   health_checks      the rows of table health_checks, in rowid order    *)
(*   service_calls      the rows of table service_calls, in rowid order    *)
(*   history            the latest getHistory call and what it returned    *)
(*   params             the arguments of a check_my_health call and        *)
(*                      whether the server has a store                     *)
(*   attempts           the store methods the handler has called, in       *)
(*                      order, each with the agent id passed and whether   *)
(*                      it threw (history)                                 *)
(*   response           what the handler returned                          *)
(***************************************************************************)
VARIABLES db, cache, inFlightRequests, promises, calls, returned, firstResolved,
          config, extracted, input, resolved, assessment, recs, stage,
          curve, clock, health_checks, service_calls, history,
          params, attempts, response

resolverVars == <<db, cache, inFlightRequests, promises, calls, returned, firstResolved>>

healthVars == <<input, resolved, assessment, recs, stage>>

storeVars == <<clock, health_checks, service_calls, history>>

handlerVars == <<params, attempts, response>>

serverVars == <<curve, storeVars, handlerVars>>

vars == <<db, cache, inFlightRequests, promises, calls, returned, firstResolved,
          config, extracted, healthVars, serverVars>>

NoRow == [absent |-> TRUE]
NoCall == [none |-> TRUE]
Pending == [pending |-> TRUE]

Row(maxTokens, profile) ==
  [max_tokens |-> maxTokens, profile_json |-> JSONStringify(profile)]

NotRun == [notRun |-> TRUE]

NoInput == AssessmentInput(1, Str("other"), Undefined, Undefined)
NotAssessed == [notAssessed |-> TRUE]

NoCurve == [lo |-> 0, hi |-> 0, qLo |-> 0, qHi |-> 0]
NoHistory == [agentId |-> << >>, limit |-> 0, rows |-> << >>]
NoParams ==
  [token_count |-> 1, model |-> Undefined, session_duration_minutes |-> Undefined,
   tool_calls_count |-> Undefined, agent_id |-> Undefined, store |-> FALSE]
NoResponse == [none |-> TRUE]

\* A store just initialized: both tables exist and are empty.
InitStore ==
  /\ clock = 0
  /\ health_checks = << >>
  /\ service_calls = << >>
  /\ history = NoHistory

InitHandler ==
  /\ params = NoParams
  /\ attempts = << >>
  /\ response = NoResponse

InitServer ==
  /\ curve = NoCurve
  /\ InitStore
  /\ InitHandler

InitHealth ==
  /\ input = NoInput
  /\ resolved = MODEL_PROFILES["other"]
  /\ assessment = NotAssessed
  /\ recs = << >>
  /\ stage = "idle"

InitResolver ==
  /\ db \in BOOLEAN
  /\ cache = [m \in ModelStrings |-> NoRow]
  /\ inFlightRequests = [r \in Resolvers |-> [m \in ModelStrings |-> 0]]
  /\ promises = << >>
  /\ calls = << >>
  /\ returned = NoCall
  /\ firstResolved = [m \in ModelStrings |-> Null]

Init ==
  /\ InitResolver
  /\ config = EmptyConfig
  /\ extracted = NotRun
  /\ InitHealth
  /\ InitServer

(***************************************************************************)
(* HuggingFaceResolver: the private methods.                               *)
(***************************************************************************)
getCachedNever(repoId, readThrows) ==
  Null

\* getCached: null without a database, when the SELECT or JSON.parse throws,
\* and when there is no row; otherwise the parsed profile_json.
getCached(repoId, readThrows) ==
  IF ~db THEN Null
  ELSE IF readThrows THEN Null
  ELSE IF cache[repoId] = NoRow THEN Null
  ELSE JSONParse(cache[repoId].profile_json)

cacheProfileIgnoringDb(repoId, maxTokens, profile, writeThrows) ==
  IF writeThrows THEN cache
  ELSE [cache EXCEPT ![repoId] = Row(maxTokens, profile)]

\* cacheProfile: INSERT OR REPLACE of the row; nothing without a database or
\* when the statement throws.  The value is the table after the call.
cacheProfile(repoId, maxTokens, profile, writeThrows) ==
  IF ~db THEN cache
  ELSE IF writeThrows THEN cache
  ELSE [cache EXCEPT ![repoId] = Row(maxTokens, profile)]

fetchAndCacheProfileRetried(repoId, maxTokens) ==
  IF maxTokens = Null THEN generateHeuristicProfile(repoId, 2048)
  ELSE generateHeuristicProfile(repoId, maxTokens.num)

\* The profile fetchAndCache returns for what fetchHuggingFaceConfig returned.
fetchAndCacheProfile(repoId, maxTokens) ==
  IF maxTokens = Null THEN getModelProfile(Str("other"))
  ELSE generateHeuristicProfile(repoId, maxTokens.num)

fetchAndCacheStoresAlways(repoId, maxTokens, writeThrows) ==
  cacheProfile(repoId, 0, fetchAndCacheProfile(repoId, maxTokens), writeThrows)

\* The table after fetchAndCache: written only on the success path.
fetchAndCacheStores(repoId, maxTokens, writeThrows) ==
  IF maxTokens = Null THEN cache
  ELSE cacheProfile(repoId, maxTokens.num,
                    generateHeuristicProfile(repoId, maxTokens.num), writeThrows)

inFlightGetNever(r, model) ==
  0

\* this.inFlightRequests.get(model)
inFlightGet(r, model) ==
  inFlightRequests[r][model]

inFlightDeleteNothing(r, model) ==
  inFlightRequests

inFlightDeleteAllKeys(r, model) ==
  [inFlightRequests EXCEPT ![r] = [m \in ModelStrings |-> 0]]

\* this.inFlightRequests.delete(model)
inFlightDelete(r, model) ==
  [inFlightRequests EXCEPT ![r][model] = 0]

(***************************************************************************)
(* Bookkeeping recorded with each call when it starts.                     *)
(***************************************************************************)
FetchingFor(r, model) ==
  {p \in DOMAIN promises :
     /\ promises[p].resolver = r
     /\ promises[p].key = model
     /\ promises[p].state = "fetching"}

PendingInitiators(r, model) ==
  {c \in DOMAIN calls :
     /\ calls[c].resolver = r
     /\ calls[c].model = model
     /\ calls[c].pc = "awaitOwn"}

\* rowAtStart: the row of the model when the call started; rowUnreadable:
\* the call looked the row up and the statement threw; fetchingAtStart: the
\* promise of this resolver whose fetch for the model was outstanding (0:
\* none); initiatorPending: a call of this resolver that started a fetch for
\* the model had not returned; resolvedBefore: firstResolved at that moment.
Call(r, model, pc, promise, result, via, read, readThrows) ==
  [resolver |-> r, model |-> model, pc |-> pc, promise |-> promise,
   result |-> result, via |-> via, read |-> read,
   rowAtStart |-> cache[model],
   rowUnreadable |-> (read # "skipped" /\ db /\ readThrows /\ cache[model] # NoRow),
   fetchingAtStart |-> IF FetchingFor(r, model) = {} THEN 0
                       ELSE CHOOSE p \in FetchingFor(r, model) : TRUE,
   initiatorPending |-> PendingInitiators(r, model) # {},
   resolvedBefore |-> firstResolved[model]]

\* What the call got from getCached: "skipped" when it returned before the
\* lookup, otherwise "null" or "hit".
ReadKind(model, readThrows) ==
  IF getCached(model, readThrows) = Null THEN "null" ELSE "hit"

(***************************************************************************)
(* resolveModelProfile(model) on resolver r, up to its first await or to   *)
(* its return.  The call of fetchAndCache runs synchronously up to the     *)
(* fetch, so the network request is issued within this step.               *)
(***************************************************************************)
Start(r, model, readThrows) ==
  LET curated == getModelProfile(model)
      cached == getCached(model, readThrows)
      existing == inFlightGet(r, model)
      pid == Len(promises) + 1
  IN  /\ IF curated.name # Str("Unknown Model")
           THEN /\ returned' = Call(r, model, "done", 0, curated, "curated", "skipped", readThrows)
                /\ UNCHANGED <<calls, promises, inFlightRequests>>
         ELSE IF ~looksLikeHuggingFaceRepoId(model)
           THEN /\ returned' = Call(r, model, "done", 0, curated, "fallback", "skipped", readThrows)
                /\ UNCHANGED <<calls, promises, inFlightRequests>>
         ELSE IF cached # Null
           THEN /\ returned' = Call(r, model, "done", 0, cached, "cache",
                                    ReadKind(model, readThrows), readThrows)
                /\ UNCHANGED <<calls, promises, inFlightRequests>>
         ELSE IF existing # 0
           THEN /\ Len(calls) < MaxCalls
                /\ calls' = Append(calls, Call(r, model, "awaitExisting", existing, Pending,
                                               "joined", ReadKind(model, readThrows), readThrows))
                /\ UNCHANGED <<returned, promises, inFlightRequests>>
         ELSE /\ Len(calls) < MaxCalls
              /\ promises' = Append(promises,
                   [resolver |-> r, key |-> model, state |-> "fetching",
                    maxTokens |-> Undefined,
                    result |-> Pending, wrote |-> FALSE,
                    rowBefore |-> NoRow, rowAfter |-> NoRow])
              /\ inFlightRequests' = [inFlightRequests EXCEPT ![r][model] = pid]
              /\ calls' = Append(calls, Call(r, model, "awaitOwn", pid, Pending,
                                             "fetched", ReadKind(model, readThrows), readThrows))
              /\ UNCHANGED returned
      /\ UNCHANGED <<db, cache, firstResolved, config, extracted, healthVars, serverVars>>

(***************************************************************************)
(* The fetch of promise p settles with an outcome and the continuations    *)
(* that follow it run: fetchHuggingFaceConfig returns the context length   *)
(* or null, fetchAndCache returns the fallback on null and otherwise       *)
(* builds the heuristic profile and caches it, and its promise settles     *)
(* with that profile.                                                      *)
(***************************************************************************)
FetchSettles(p, outcome, writeThrows) ==
  /\ p \in DOMAIN promises
  /\ promises[p].state = "fetching"
  /\ LET repoId == promises[p].key
         maxTokens == fetchHuggingFaceConfig(outcome)
         profile == fetchAndCacheProfile(repoId, maxTokens)
     IN  /\ cache' = fetchAndCacheStores(repoId, maxTokens, writeThrows)
         /\ promises' = [promises EXCEPT
              ![p].state = "settled",
              ![p].maxTokens = maxTokens,
              ![p].result = profile,
              ![p].wrote = (maxTokens # Null /\ db /\ ~writeThrows),
              ![p].rowBefore = cache[repoId],
              ![p].rowAfter = cache'[repoId]]
         /\ firstResolved' =
              IF maxTokens # Null /\ firstResolved[repoId] = Null
                THEN [firstResolved EXCEPT ![repoId] = profile]
                ELSE firstResolved
  /\ UNCHANGED <<db, inFlightRequests, calls, returned, config, extracted, healthVars, serverVars>>

(***************************************************************************)
(* The call that started the fetch resumes after `await promise`: the      *)
(* finally block deletes the entry of its model and the call returns.      *)
(***************************************************************************)
InitiatorResumes(c) ==
  /\ c \in DOMAIN calls
  /\ calls[c].pc = "awaitOwn"
  /\ promises[calls[c].promise].state = "settled"
  /\ inFlightRequests' = inFlightDelete(calls[c].resolver, calls[c].model)
  /\ calls' = [calls EXCEPT ![c].pc = "done",
                            ![c].result = promises[calls[c].promise].result]
  /\ UNCHANGED <<db, cache, promises, returned, firstResolved, config, extracted, healthVars, serverVars>>

Initiator(p) ==
  CHOOSE c \in DOMAIN calls : calls[c].promise = p /\ calls[c].via = "fetched"

(***************************************************************************)
(* A call that returned the registered promise settles with its value.     *)
(* Its reaction was registered after the initiator's, so it runs after     *)
(* the initiator has resumed.                                              *)
(***************************************************************************)
JoinerResumes(c) ==
  /\ c \in DOMAIN calls
  /\ calls[c].pc = "awaitExisting"
  /\ promises[calls[c].promise].state = "settled"
  /\ calls[Initiator(calls[c].promise)].pc = "done"
  /\ calls' = [calls EXCEPT ![c].pc = "done",
                            ![c].result = promises[calls[c].promise].result]
  /\ UNCHANGED <<db, cache, inFlightRequests, promises, returned, firstResolved,
                 config, extracted, healthVars, serverVars>>

\* A statement on the database can throw; without a database none is run.
ReadOutcomes == IF db THEN BOOLEAN ELSE {FALSE}
WriteOutcomes == IF db THEN BOOLEAN ELSE {FALSE}

Next ==
  \/ \E r \in Resolvers, model \in ShapeInputs, readThrows \in ReadOutcomes :
       Start(r, model, readThrows)
  \/ \E p \in 1..MaxCalls, outcome \in FetchOutcomes, writeThrows \in WriteOutcomes :
       FetchSettles(p, outcome, writeThrows)
  \/ \E c \in 1..MaxCalls : InitiatorResumes(c)
  \/ \E c \in 1..MaxCalls : JoinerResumes(c)

Spec == Init /\ [][Next]_vars

\* The event loop runs every queued continuation, and the fetch settles
\* within HUGGINGFACE_TIMEOUT_MS (the abort signal rejects it otherwise).
Fairness ==
  /\ \A p \in 1..MaxCalls :
       WF_vars(\E outcome \in FetchOutcomes, writeThrows \in WriteOutcomes :
                 FetchSettles(p, outcome, writeThrows))
  /\ \A c \in 1..MaxCalls : WF_vars(InitiatorResumes(c))
  /\ \A c \in 1..MaxCalls : WF_vars(JoinerResumes(c))

\* The resolver called with repository ids only, for two repositories.
NextRepos ==
  \/ \E r \in Resolvers, model \in RepoInputs, readThrows \in ReadOutcomes :
       Start(r, model, readThrows)
  \/ \E p \in 1..MaxCalls, outcome \in FetchOutcomes, writeThrows \in WriteOutcomes :
       FetchSettles(p, outcome, writeThrows)
  \/ \E c \in 1..MaxCalls : InitiatorResumes(c)
  \/ \E c \in 1..MaxCalls : JoinerResumes(c)

SpecRepos == Init /\ [][NextRepos]_vars

LiveRepos == SpecRepos /\ Fairness

\* The context lengths a repository serves in the model of the profile
\* arithmetic: 0.65 * M has the fraction .5 for 10 and a fraction above it
\* for 3 and for 131072 (the value of the resolution test).
ContextLengths == {3, 10, 131072}

\* A remote that either serves a positive context length or lets the request
\* run into AbortSignal.timeout.
TimeoutOutcome == Outcome("timeout", EmptyConfig)

LengthOutcomes ==
  {TimeoutOutcome} \cup
  {Outcome("ok", Config(Num(M), Undefined, Undefined)) : M \in ContextLengths}

\* The resolver called for one repository whose fetch succeeds with one of
\* the context lengths or times out.
NextLengths ==
  \/ \E r \in Resolvers, readThrows \in ReadOutcomes : Start(r, RepoA, readThrows)
  \/ \E p \in 1..MaxCalls, outcome \in LengthOutcomes, writeThrows \in WriteOutcomes :
       FetchSettles(p, outcome, writeThrows)
  \/ \E c \in 1..MaxCalls : InitiatorResumes(c)
  \/ \E c \in 1..MaxCalls : JoinerResumes(c)

SpecLengths == Init /\ [][NextLengths]_vars

(***************************************************************************)
(* extractMaxTokens applied to a config.json.                              *)
(***************************************************************************)
InitExtract ==
  /\ InitResolver
  /\ config \in AllConfigs
  /\ extracted = NotRun
  /\ InitHealth
  /\ InitServer

Extract ==
  /\ extracted = NotRun
  /\ extracted' = extractMaxTokens(config)
  /\ UNCHANGED <<resolverVars, config, healthVars, serverVars>>

NextExtract == Extract

SpecExtract == InitExtract /\ [][NextExtract]_vars

(***************************************************************************)
(* A health check: assessHealth on an input whose model has been resolved, *)
(* then generateRecommendations on the assessment, as the check_my_health  *)
(* handler calls them.                                                     *)
(***************************************************************************)
InitAssess ==
  /\ InitResolver
  /\ config = EmptyConfig
  /\ extracted = NotRun
  /\ input \in AssessmentInputs
  /\ resolved \in ResolvableProfiles(input.model)
  /\ assessment = NotAssessed
  /\ recs = << >>
  /\ stage = "input"
  /\ InitServer

AssessCeilingMaxTokens ==
  /\ stage = "input"
  /\ assessment' =
       [assessHealth(input, resolved) EXCEPT
          !.token_utilization.max_effective = resolved.maxTokens,
          !.token_utilization.percentage =
            (input.tokenCount * 1000 + resolved.maxTokens \div 2) \div resolved.maxTokens]
  /\ stage' = "assessed"
  /\ UNCHANGED <<resolverVars, config, extracted, input, resolved, recs, serverVars>>

Assess ==
  /\ stage = "input"
  /\ assessment' = assessHealth(input, resolved)
  /\ stage' = "assessed"
  /\ UNCHANGED <<resolverVars, config, extracted, input, resolved, recs, serverVars>>

Recommend ==
  /\ stage = "assessed"
  /\ recs' = generateRecommendations(assessment)
  /\ stage' = "recommended"
  /\ UNCHANGED <<resolverVars, config, extracted, input, resolved, assessment,
               serverVars>>

NextAssess == Assess \/ Recommend

SpecAssess == InitAssess /\ [][NextAssess]_vars

(***************************************************************************)
(* generateRecommendations applied to any HealthAssessment.                *)
(***************************************************************************)
InitRecommend ==
  /\ InitResolver
  /\ config = EmptyConfig
  /\ extracted = NotRun
  /\ input = NoInput
  /\ resolved = MODEL_PROFILES["other"]
  /\ assessment \in AllAssessments
  /\ recs = << >>
  /\ stage = "assessed"
  /\ InitServer

NextRecommend == Recommend

SpecRecommend == InitRecommend /\ [][NextRecommend]_vars

(***************************************************************************)
(* calculateQualityMultiplier sampled at two token counts of one profile.  *)
(***************************************************************************)
\* The profiles whose curve is sampled: the catalog's and the heuristic
\* profiles of the assessed context lengths.
CurveProfiles ==
  {MODEL_PROFILES[id] : id \in DOMAIN MODEL_PROFILES} \cup
  {generateHeuristicProfile(RepoA, M) : M \in AssessLengths}

CurveTokens == TokenCounts \cup {0}

InitCurves ==
  /\ InitResolver
  /\ config = EmptyConfig
  /\ extracted = NotRun
  /\ input = NoInput
  /\ resolved \in CurveProfiles
  /\ assessment = NotAssessed
  /\ recs = << >>
  /\ stage = "curve"
  /\ \E lo \in CurveTokens, hi \in CurveTokens :
       /\ lo <= hi
       /\ curve = [lo |-> lo, hi |-> hi, qLo |-> 0, qHi |-> 0]
  /\ InitStore
  /\ InitHandler

SampleCurve ==
  /\ stage = "curve"
  /\ curve' = [curve EXCEPT !.qLo = calculateQualityMultiplier(curve.lo, resolved),
                            !.qHi = calculateQualityMultiplier(curve.hi, resolved)]
  /\ stage' = "sampled"
  /\ UNCHANGED <<resolverVars, config, extracted, input, resolved, assessment, recs,
                 storeVars, handlerVars>>

NextCurves == SampleCurve

SpecCurves == InitCurves /\ [][NextCurves]_vars

(***************************************************************************)
(* HealthHistoryStore: the tables health_checks and service_calls.         *)
(***************************************************************************)
\* The health checks one store may hold, and the seconds its clock may reach.
MaxRecords == 3
MaxClock == 1

\* record: INSERT INTO health_checks.  id is the AUTOINCREMENT rowid and
\* timestamp the column default datetime('now'), which has a resolution of
\* one second.  The value is the table after the insert.
record(agentId, model, toolCallsCount, sessionDurationMinutes, a, recommendations) ==
  Append(health_checks,
    [id |-> Len(health_checks) + 1,
     agent_id |-> agentId,
     timestamp |-> clock,
     health_score |-> a.health_score,
     status |-> a.status,
     token_count |-> a.token_utilization.current,
     token_percentage |-> a.token_utilization.percentage,
     model |-> model,
     tool_calls_count |-> toolCallsCount,
     session_duration_minutes |-> sessionDurationMinutes,
     recommendations_json |-> [json |-> recommendations]])

\* recordCall: INSERT INTO service_calls.  duration_ms is a wall-clock
\* measurement and is left out of the row.
recordCall(p) ==
  Append(service_calls,
    [id |-> Len(service_calls) + 1,
     timestamp |-> clock,
     tool |-> p.tool,
     agent_id |-> p.agentId,
     model |-> p.model,
     token_count |-> Coalesce(p.tokenCount, Null),
     health_score |-> Coalesce(p.healthScore, Null),
     status |-> p.status])

Take(rows, limit) == SubSeq(rows, 1, Min(limit, Len(rows)))

\* WHERE agent_id = ?
Matching(agentId) ==
  {i \in DOMAIN health_checks : health_checks[i].agent_id = agentId}

\* ORDER BY timestamp DESC: the rows of the agent, later timestamps first.
\* The statement names no second sort key, so SQL leaves the order of rows
\* of one timestamp to the query plan: every such order is a possible one.
OrderedByTimestampDesc(agentId) ==
  LET rows == Matching(agentId)
      n == Cardinality(rows)
  IN  {o \in [1..n -> rows] :
         /\ \A i, j \in 1..n : i # j => o[i] # o[j]
         /\ \A i, j \in 1..n :
              i < j => health_checks[o[i]].timestamp >= health_checks[o[j]].timestamp}

\* getHistory: the results the SELECT may return, LIMIT applied last.
getHistory(agentId, limit) ==
  {Take([i \in DOMAIN o |-> health_checks[o[i]]], limit) :
     o \in OrderedByTimestampDesc(agentId)}

Agents == {Str("agent-1"), Str("agent-2")}

\* The limits getHistory is called with: the get_health_history tool accepts
\* 1..100 and passes 20 when the caller gives none.
Limits == {1, 2, 20}

\* The assessments recorded: a healthy and an unhealthy check.
RecordedInputs ==
  {AssessmentInput(t, Str("other"), Num(0), Num(0)) : t \in {5000, 190000}}

\* One second passes.
Tick ==
  /\ clock < MaxClock
  /\ clock' = clock + 1
  /\ UNCHANGED <<resolverVars, config, extracted, healthVars, curve, health_checks,
                 service_calls, history, handlerVars>>

Record(agentId, checked) ==
  /\ Len(health_checks) < MaxRecords
  /\ LET a == assessHealth(checked, MODEL_PROFILES["other"])
     IN  health_checks' = record(agentId, checked.model, checked.toolCallsCount.num,
                                 checked.sessionDurationMinutes.num, a,
                                 generateRecommendations(a))
  /\ UNCHANGED <<resolverVars, config, extracted, healthVars, curve, clock,
                 service_calls, history, handlerVars>>

\* asOf: the rows the table held when the query ran.
GetHistory(agentId, limit) ==
  /\ \E rows \in getHistory(agentId, limit) :
       history' = [agentId |-> agentId, limit |-> limit,
                   asOf |-> Len(health_checks), rows |-> rows]
  /\ UNCHANGED <<resolverVars, config, extracted, healthVars, curve, clock,
                 health_checks, service_calls, handlerVars>>

NextHistory ==
  \/ Tick
  \/ \E agentId \in Agents, checked \in RecordedInputs : Record(agentId, checked)
  \/ \E agentId \in Agents, limit \in Limits : GetHistory(agentId, limit)

SpecHistory == Init /\ [][NextHistory]_vars

(***************************************************************************)
(* The check_my_health handler of createServer(store, resolver).           *)
(***************************************************************************)
\* if (x): a string is truthy unless it is empty.
Truthy(v) == v.kind = "string" /\ v.str # << >>

HandlerParams ==
  [token_count : {5000, 190000},
   model : {Undefined, StringValue(CuratedModel), StringValue(RepoA)},
   session_duration_minutes : {Undefined, Num(91)},
   tool_calls_count : {Undefined, Num(31)},
   agent_id : {Undefined, StringValue(<< >>), StringValue(Str("agent-1"))},
   store : BOOLEAN]

InitHandle ==
  /\ InitResolver
  /\ config = EmptyConfig
  /\ extracted = NotRun
  /\ input = NoInput
  /\ resolved = MODEL_PROFILES["other"]
  /\ assessment = NotAssessed
  /\ recs = << >>
  /\ stage = "called"
  /\ curve = NoCurve
  /\ InitStore
  /\ params \in HandlerParams
  /\ attempts = << >>
  /\ response = NoResponse

\* Lines 83-95: the defaults, and assessHealth awaiting the resolver, which
\* answers with a profile of the model.
ResolveModel ==
  /\ stage = "called"
  /\ LET model == Coalesce(params.model, StringValue(Str("other"))).str
         toolCallsCount == Coalesce(params.tool_calls_count, Num(0))
         sessionDurationMinutes == Coalesce(params.session_duration_minutes, Num(0))
     IN  /\ input' = AssessmentInput(params.token_count, model,
                                     sessionDurationMinutes, toolCallsCount)
         /\ resolved' \in ResolvableProfiles(model)
  /\ stage' = "input"
  /\ UNCHANGED <<resolverVars, config, extracted, assessment, recs, serverVars>>

StoreRecordUncaught(recordThrows) ==
  /\ stage = "recommended"
  /\ IF Truthy(params.agent_id) /\ params.store
       THEN /\ attempts' = Append(attempts,
                 [method |-> "record", agentId |-> params.agent_id.str,
                  threw |-> recordThrows])
            /\ health_checks' =
                 IF recordThrows THEN health_checks
                 ELSE record(params.agent_id.str, input.model, input.toolCallsCount.num,
                             input.sessionDurationMinutes.num, assessment, recs)
            /\ stage' = IF recordThrows THEN "failed" ELSE "recorded"
       ELSE /\ UNCHANGED <<attempts, health_checks>>
            /\ stage' = "recorded"
  /\ UNCHANGED <<resolverVars, config, extracted, input, resolved, assessment, recs,
                 curve, clock, service_calls, history, params, response>>

StoreRecordAnonymousToo(recordThrows) ==
  /\ stage = "recommended"
  /\ IF params.store
       THEN LET agentId == Coalesce(params.agent_id, StringValue(Str("anonymous"))).str
            IN  /\ attempts' = Append(attempts,
                     [method |-> "record", agentId |-> agentId, threw |-> recordThrows])
                /\ health_checks' =
                     IF recordThrows THEN health_checks
                     ELSE record(agentId, input.model, input.toolCallsCount.num,
                                 input.sessionDurationMinutes.num, assessment, recs)
       ELSE UNCHANGED <<attempts, health_checks>>
  /\ stage' = "recorded"
  /\ UNCHANGED <<resolverVars, config, extracted, input, resolved, assessment, recs,
                 curve, clock, service_calls, history, params, response>>

\* Lines 100-114: store.record inside its own try / catch.
StoreRecord(recordThrows) ==
  /\ stage = "recommended"
  /\ IF Truthy(params.agent_id) /\ params.store
       THEN /\ attempts' = Append(attempts,
                 [method |-> "record", agentId |-> params.agent_id.str,
                  threw |-> recordThrows])
            /\ health_checks' =
                 IF recordThrows THEN health_checks
                 ELSE record(params.agent_id.str, input.model, input.toolCallsCount.num,
                             input.sessionDurationMinutes.num, assessment, recs)
       ELSE UNCHANGED <<attempts, health_checks>>
  /\ stage' = "recorded"
  /\ UNCHANGED <<resolverVars, config, extracted, input, resolved, assessment, recs,
                 curve, clock, service_calls, history, params, response>>

\* Lines 118-133: store.recordCall inside its own try / catch.
StoreRecordCall(recordCallThrows) ==
  /\ stage = "recorded"
  /\ IF params.store
       THEN LET agentId == Coalesce(params.agent_id, StringValue(Str("anonymous"))).str
            IN  /\ attempts' = Append(attempts,
                     [method |-> "recordCall", agentId |-> agentId,
                      threw |-> recordCallThrows])
                /\ service_calls' =
                     IF recordCallThrows THEN service_calls
                     ELSE recordCall([tool |-> "check_my_health", agentId |-> agentId,
                                      model |-> input.model,
                                      tokenCount |-> Num(params.token_count),
                                      healthScore |-> Num(assessment.health_score),
                                      status |-> assessment.status])
       ELSE UNCHANGED <<attempts, service_calls>>
  /\ stage' = "logged"
  /\ UNCHANGED <<resolverVars, config, extracted, input, resolved, assessment, recs,
                 curve, clock, health_checks, history, params, response>>

\* Lines 136-151: the log line, then the result: the assessment with its
\* recommendations.
Respond ==
  /\ stage = "logged"
  /\ response' = assessment @@ [recommendations |-> recs]
  /\ stage' = "responded"
  /\ UNCHANGED <<resolverVars, config, extracted, input, resolved, assessment, recs,
                 curve, storeVars, params, attempts>>

Throws == BOOLEAN

NextHandle ==
  \/ ResolveModel
  \/ Assess
  \/ Recommend
  \/ \E recordThrows \in Throws : StoreRecord(recordThrows)
  \/ \E recordCallThrows \in Throws : StoreRecordCall(recordCallThrows)
  \/ Respond

SpecHandle == InitHandle /\ [][NextHandle]_vars

(***************************************************************************)
(* Vocabulary of the properties.                                           *)
(***************************************************************************)
Other == MODEL_PROFILES["other"]

AllCalls ==
  {calls[c] : c \in DOMAIN calls} \cup (IF returned = NoCall THEN {} ELSE {returned})

IsCuratedId(model) == Len(model) = 1 /\ model[1] \in KNOWN_MODELS

\* Exactly one slash, with a non-empty segment on each side.
TwoSegmentShape(model) ==
  /\ Cardinality({i \in DOMAIN model : model[i] = Slash}) = 1
  /\ model[1] # Slash
  /\ model[Len(model)] # Slash

ProfileFields ==
  {"name", "maxTokens", "degradationOnset", "dangerZone",
   "middleLossCoefficient", "baseRetrievalAccuracy"}

IsProfile(v) == DOMAIN v = ProfileFields

Failed(p) == promises[p].state = "settled" /\ promises[p].maxTokens = Null
Succeeded(p) == promises[p].state = "settled" /\ promises[p].maxTokens # Null

(***************************************************************************)
(* C1. On one resolver instance there is at every moment at most one       *)
(* outstanding (issued, not yet settled) remote fetch for a model key.     *)
(***************************************************************************)
C1_AtMostOneOutstandingFetch ==
  \A r \in Resolvers, m \in ModelStrings : Cardinality(FetchingFor(r, m)) <= 1

\* A second call for the key arrived while its fetch was outstanding.
C1_Witness ==
  \E c \in DOMAIN calls :
    /\ calls[c].pc = "awaitExisting"
    /\ promises[calls[c].promise].state = "fetching"
    /\ FetchingFor(calls[c].resolver, calls[c].model) = {calls[c].promise}

(***************************************************************************)
(* C2. A call for an uncached repository id that starts while the fetch    *)
(* for that id is outstanding on its resolver issues no network call of    *)
(* its own: it awaits the promise of that fetch, and it returns what the   *)
(* call that started the fetch returns, the heuristic profile when the     *)
(* fetch succeeded and the "other" fallback when it failed.  Every promise *)
(* (network call) was started by exactly one call.                         *)
(***************************************************************************)
C2_ConcurrentCallersShareFetch ==
  /\ \A k \in AllCalls :
       (k.fetchingAtStart # 0 /\ k.rowAtStart = NoRow) =>
         /\ k.via = "joined"
         /\ k.promise = k.fetchingAtStart
         /\ k.pc = "done" =>
              /\ calls[Initiator(k.promise)].pc = "done"
              /\ calls[Initiator(k.promise)].result = k.result
              /\ k.result =
                   IF promises[k.promise].maxTokens = Null THEN Other
                   ELSE generateHeuristicProfile(k.model, promises[k.promise].maxTokens.num)
  /\ \A p \in DOMAIN promises :
       Cardinality({c \in DOMAIN calls :
                      calls[c].promise = p /\ calls[c].via = "fetched"}) = 1

\* Two callers of one fetch that succeeded have both returned its profile.
C2_Witness ==
  \E c \in DOMAIN calls :
    /\ calls[c].via = "joined"
    /\ calls[c].fetchingAtStart # 0
    /\ calls[c].pc = "done"
    /\ Succeeded(calls[c].promise)
    /\ calls[c].result = calls[Initiator(calls[c].promise)].result

(***************************************************************************)
(* C3. Once the promise of a fetch has settled, the in-flight entry that   *)
(* holds it is eventually deleted; and a call for a key that starts after  *)
(* a call of its resolver whose fetch for the key failed has returned      *)
(* (no call that started a fetch for the key is pending) starts a fetch of *)
(* its own instead of awaiting the failed promise.                         *)
(***************************************************************************)
MarkerHolds(p) ==
  /\ p \in DOMAIN promises
  /\ inFlightRequests[promises[p].resolver][promises[p].key] = p

SettledPromise(p) == p \in DOMAIN promises /\ promises[p].state = "settled"

FailedBefore(c) ==
  \E b \in 1..(c - 1) :
    /\ calls[b].resolver = calls[c].resolver
    /\ calls[b].model = calls[c].model
    /\ calls[b].via = "fetched"
    /\ Failed(calls[b].promise)

C3_RefetchAfterFailure ==
  \A c \in DOMAIN calls :
    (FailedBefore(c) /\ ~calls[c].initiatorPending) =>
      /\ calls[c].via = "fetched"
      /\ \A b \in 1..(c - 1) : calls[b].promise # calls[c].promise

FailedOutcomes ==
  {Outcome(k, EmptyConfig) : k \in FailureKinds} \cup
  { Outcome("ok", EmptyConfig),
    Outcome("ok", Config(Num(0), Undefined, Undefined)),
    Outcome("ok", Config(Num(0 - 1), Undefined, Undefined)) }

(***************************************************************************)
(* C4 as claimed: after a failed fetch the call returns the "other"        *)
(* fallback and the cache has no entry for the key.                        *)
(***************************************************************************)
C4_NoEntryAfterFailure ==
  \A p \in DOMAIN promises :
    Failed(p) => promises[p].result = Other /\ promises[p].rowAfter = NoRow

(***************************************************************************)
(* C4 as amended: every kind of fetch failure makes fetchHuggingFaceConfig *)
(* return null; the promise of a failed fetch settles with the "other"     *)
(* fallback, the calls that await it return that fallback, and the failed  *)
(* fetch writes nothing: the cache row of the key is what it was before    *)
(* (absent when it was absent).                                            *)
(***************************************************************************)
C4_FailureLeavesCacheAlone ==
  /\ FailedOutcomes \subseteq FetchOutcomes
  /\ \A o \in FailedOutcomes : fetchHuggingFaceConfig(o) = Null
  /\ \A p \in DOMAIN promises :
       Failed(p) =>
         /\ promises[p].result = Other
         /\ ~promises[p].wrote
         /\ promises[p].rowAfter = promises[p].rowBefore
  /\ \A c \in DOMAIN calls :
       (calls[c].pc = "done" /\ Failed(calls[c].promise)) => calls[c].result = Other

\* A call whose fetch failed has returned the fallback and the key is absent
\* from the cache of a resolver that has a database.
C4_Witness ==
  \E c \in DOMAIN calls :
    /\ db
    /\ calls[c].via = "fetched"
    /\ calls[c].pc = "done"
    /\ Failed(calls[c].promise)
    /\ calls[c].result = Other
    /\ cache[calls[c].model] = NoRow

(***************************************************************************)
(* C5. Every resolveModelProfile call that has completed returned a        *)
(* profile (an object with the six profile fields), whatever the model     *)
(* string and whatever the fetch, the cache read and the cache write did.  *)
(***************************************************************************)
C5_AlwaysReturnsProfile ==
  \A k \in AllCalls : k.pc = "done" => IsProfile(k.result)

(***************************************************************************)
(* C6 as claimed: with a database, once a resolution of a key has          *)
(* succeeded every later call for the key, on any resolver of the          *)
(* database, returns the profile first resolved without a network call.    *)
(***************************************************************************)
C6_AfterSuccessAlwaysCached ==
  \A k \in AllCalls :
    (db /\ k.resolvedBefore # Null) =>
      k.via = "cache" /\ k.result = k.resolvedBefore

(***************************************************************************)
(* C6 as amended: once a row for a key is stored in the cache, every later *)
(* call for the key whose cache read does not throw, on any resolver of    *)
(* the database, returns the stored profile - the heuristic profile of the *)
(* successful resolution that wrote the row - without suspending, without  *)
(* a network call and without a cache write; and every row of the cache    *)
(* was written by a successful resolution and parses to its profile.       *)
(***************************************************************************)
C6_StoredRowIsPureRead ==
  /\ \A k \in AllCalls :
       (TwoSegmentShape(k.model) /\ k.rowAtStart # NoRow /\ ~k.rowUnreadable) =>
         /\ k.via = "cache"
         /\ k.pc = "done"
         /\ k.promise = 0
         /\ k.result = generateHeuristicProfile(k.model, k.rowAtStart.max_tokens)
  /\ \A m \in ModelStrings :
       cache[m] # NoRow =>
         \E p \in DOMAIN promises :
           /\ promises[p].key = m
           /\ Succeeded(p)
           /\ promises[p].wrote
           /\ promises[p].rowAfter = cache[m]
           /\ JSONParse(cache[m].profile_json) = promises[p].result

\* A resolver returned from the cache the profile another resolver had
\* resolved and stored.
C6_Witness ==
  /\ returned # NoCall
  /\ returned.via = "cache"
  /\ \E p \in DOMAIN promises :
       /\ promises[p].key = returned.model
       /\ promises[p].wrote
       /\ promises[p].resolver # returned.resolver
       /\ promises[p].result = returned.result

(***************************************************************************)
(* C7. A call with a curated catalog identifier returns the curated        *)
(* profile at once and without I/O: it reads no cache row, starts no       *)
(* fetch, and no resolver ever holds an in-flight entry, a promise or a    *)
(* cache row for a curated identifier.                                     *)
(***************************************************************************)
C7_CuratedWithoutIO ==
  /\ \A k \in AllCalls :
       IsCuratedId(k.model) =>
         /\ k.via = "curated"
         /\ k.pc = "done"
         /\ k.result = MODEL_PROFILES[k.model[1]]
         /\ k.read = "skipped"
         /\ k.promise = 0
  /\ \A m \in ModelStrings :
       IsCuratedId(m) =>
         /\ cache[m] = NoRow
         /\ \A r \in Resolvers : inFlightRequests[r][m] = 0
         /\ \A p \in DOMAIN promises : promises[p].key # m

\* A curated identifier was resolved while a fetch was outstanding.
C7_Witness ==
  /\ returned # NoCall
  /\ IsCuratedId(returned.model)
  /\ returned.result = MODEL_PROFILES["claude-opus-4"]
  /\ \E p \in DOMAIN promises : promises[p].state = "fetching"

(***************************************************************************)
(* C8. A call with an identifier that is not curated and not of the        *)
(* two-segment shape returns the "other" fallback without a cache lookup   *)
(* and without a fetch.                                                    *)
(***************************************************************************)
C8_OtherShapesFallBack ==
  \A k \in AllCalls :
    (~IsCuratedId(k.model) /\ ~TwoSegmentShape(k.model)) =>
      /\ k.result = Other
      /\ k.read = "skipped"
      /\ k.promise = 0

IsPositiveNumber(v) == v.kind = "number" /\ v.num > 0

FirstPositive(c) ==
  IF IsPositiveNumber(c.max_position_embeddings) THEN c.max_position_embeddings
  ELSE IF IsPositiveNumber(c.n_positions) THEN c.n_positions
  ELSE IF IsPositiveNumber(c.max_seq_len) THEN c.max_seq_len
  ELSE Null

C10_FirstPositiveWins ==
  extracted # NotRun => extracted = FirstPositive(config)

(***************************************************************************)
(* C11 as claimed: without a database every call for a repository id makes *)
(* a fetch of its own, so k calls make k network calls.                    *)
(***************************************************************************)
C11_EveryCallFetchesWithoutStore ==
  ~db =>
    /\ \A c \in DOMAIN calls : calls[c].via = "fetched"
    /\ Len(promises) = Len(calls)

(***************************************************************************)
(* C11 as amended: without a database nothing is cached - no row is ever   *)
(* stored and every call for a repository id finds no cached profile - so  *)
(* every call suspends on a fetch: a call that starts while no call of its *)
(* resolver that started a fetch for the key is pending makes a fetch of   *)
(* its own, and a call that starts while one is pending awaits that fetch. *)
(***************************************************************************)
C11_NoStoreNoCacheCallsFetchOrJoin ==
  ~db =>
    /\ \A m \in ModelStrings : cache[m] = NoRow
    /\ \A p \in DOMAIN promises : ~promises[p].wrote /\ promises[p].rowAfter = NoRow
    /\ \A k \in AllCalls :
         TwoSegmentShape(k.model) =>
           /\ k.read = "null"
           /\ k.via \in {"fetched", "joined"}
           /\ k.via = "joined" <=> k.initiatorPending
    /\ Len(promises) = Cardinality({c \in DOMAIN calls : ~calls[c].initiatorPending})

\* Without a database, a second call for a key made after the first had
\* returned its successfully fetched profile fetched again.
C11_Witness ==
  /\ ~db
  /\ \E b \in DOMAIN calls, c \in DOMAIN calls :
       /\ b < c
       /\ calls[b].resolver = calls[c].resolver
       /\ calls[b].model = calls[c].model
       /\ calls[b].via = "fetched" /\ Succeeded(calls[b].promise)
       /\ ~calls[c].initiatorPending
       /\ calls[c].via = "fetched"
       /\ calls[c].promise # calls[b].promise

(***************************************************************************)
(* C12. On every resolver and for every key, a cache write happens only    *)
(* when a fetch has succeeded and not before it settled, a fetch that did  *)
(* not succeed leaves the row of its key as it was, and the cache writes   *)
(* for the key are at most as many as its successful fetches (each fetch   *)
(* settles once and writes at most one row).                               *)
(***************************************************************************)
WritesFor(r, m) ==
  {p \in DOMAIN promises :
     promises[p].resolver = r /\ promises[p].key = m /\ promises[p].wrote}

SuccessesFor(r, m) ==
  {p \in DOMAIN promises :
     promises[p].resolver = r /\ promises[p].key = m /\ Succeeded(p)}

C12_WritesBoundedBySuccesses ==
  /\ \A p \in DOMAIN promises :
       (promises[p].wrote \/ promises[p].rowAfter # promises[p].rowBefore) => Succeeded(p)
  /\ \A r \in Resolvers, m \in ModelStrings :
       /\ WritesFor(r, m) \subseteq SuccessesFor(r, m)
       /\ Cardinality(WritesFor(r, m)) <= Cardinality(SuccessesFor(r, m))
  /\ \A m \in ModelStrings :
       cache[m] # NoRow => \E r \in Resolvers : WritesFor(r, m) # {}

\* One resolver fetched a key successfully twice and wrote its row once:
\* the second write threw.
C12_Witness ==
  \E r \in Resolvers, m \in ModelStrings :
    /\ db
    /\ Cardinality(SuccessesFor(r, m)) = 2
    /\ Cardinality(WritesFor(r, m)) = 1

(***************************************************************************)
(* C13. A fetch that times out is not retried: the timeout makes           *)
(* fetchHuggingFaceConfig return null, every call starts at most one fetch *)
(* (the fetches are as many as the calls that started one, each its own),  *)
(* and a call whose fetch timed out returns the "other" fallback.          *)
(***************************************************************************)
FetchedCalls == {c \in DOMAIN calls : calls[c].via = "fetched"}

C13_TimeoutNotRetried ==
  /\ fetchHuggingFaceConfig(TimeoutOutcome) = Null
  /\ Len(promises) = Cardinality(FetchedCalls)
  /\ \A b \in FetchedCalls, c \in FetchedCalls :
       calls[b].promise = calls[c].promise => b = c
  /\ \A p \in DOMAIN promises :
       Failed(p) => promises[p].result = Other
  /\ \A c \in DOMAIN calls :
       (calls[c].pc = "done" /\ Failed(calls[c].promise)) => calls[c].result = Other

\* A call whose fetch timed out has returned the fallback, and it is the
\* only fetch that was made.
C13_Witness ==
  /\ Len(promises) = 1
  /\ Failed(1)
  /\ \E c \in FetchedCalls :
       calls[c].promise = 1 /\ calls[c].pc = "done" /\ calls[c].result = Other

(***************************************************************************)
(* C14. A successful resolution with context length M for identifier id    *)
(* returns the profile with name = id, maxTokens = M, degradationOnset =   *)
(* round(0.65 M), dangerZone = round(0.80 M) (the nearest integer, halves  *)
(* up), middleLossCoefficient = 0.40, baseRetrievalAccuracy = 0.90; and a  *)
(* profile returned from the cache for id is equal to the profile of the   *)
(* successful resolution that wrote the row.                               *)
(***************************************************************************)
\* x = round(num / den): x - 1/2 <= num / den < x + 1/2.
RoundsTo(x, num, den) ==
  /\ 2 * den * x - den <= 2 * num
  /\ 2 * num < 2 * den * x + den

Recommended == stage = "recommended"
Assessed == stage \in {"assessed", "recommended"}

Elevated(risk) == risk \in {"high", "critical"}

WithAction(action) == {i \in DOMAIN recs : recs[i].action = action}

Emitted(priority, action, gain) ==
  \E i \in DOMAIN recs :
    /\ recs[i].priority = priority
    /\ recs[i].action = action
    /\ recs[i].estimated_quality_gain = gain

Percentage == assessment.token_utilization.percentage

(***************************************************************************)
(* C15. The four token-utilization triggers are evaluated independently    *)
(* and every one whose threshold is met is emitted: at 100% or more all    *)
(* four recommendations are in the list.                                   *)
(***************************************************************************)
C15_EveryMetThresholdEmitted ==
  Recommended =>
    /\ Percentage >= 1000 => Emitted("critical", "immediate_context_reset", 40)
    /\ Percentage >= 800 => Emitted("critical", "compact_context", 25)
    /\ Percentage >= 600 => Emitted("high", "compact_context", 15)
    /\ Percentage >= 400 => Emitted("medium", "plan_compaction", 5)

(***************************************************************************)
(* C16. generateRecommendations never returns an empty list; when no       *)
(* trigger fires it returns exactly the one recommendation "continue"      *)
(* (priority low, gain 0), and "continue" is never in a list together      *)
(* with another recommendation nor in the list when a trigger fires.       *)
(***************************************************************************)
NoTriggerFires ==
  /\ Percentage < 400
  /\ ~Elevated(assessment.quality_estimate.middle_content_risk)
  /\ ~Elevated(assessment.session_fatigue.tool_call_burden)
  /\ ~Elevated(assessment.session_fatigue.session_length_risk)
  /\ ~Elevated(assessment.quality_estimate.estimated_hallucination_risk)

C16_NeverEmptyContinueAlone ==
  Recommended =>
    /\ Len(recs) >= 1
    /\ NoTriggerFires =>
         /\ Len(recs) = 1
         /\ Emitted("low", "continue", 0)
    /\ WithAction("continue") # {} => Len(recs) = 1 /\ NoTriggerFires

\* A list that is the single recommendation "continue".
C16_Witness ==
  /\ Recommended
  /\ NoTriggerFires
  /\ Len(recs) = 1
  /\ recs[1].action = "continue"

(***************************************************************************)
(* C17. The returned list is ordered by non-decreasing priority weight     *)
(* (critical 0, high 1, medium 2, low 3) and, among recommendations of     *)
(* equal priority, by non-increasing estimated_quality_gain.               *)
(***************************************************************************)
Weight(priority) ==
  IF priority = "critical" THEN 0
  ELSE IF priority = "high" THEN 1
  ELSE IF priority = "medium" THEN 2
  ELSE 3

C17_SortedByPriorityThenGain ==
  Recommended =>
    \A i \in DOMAIN recs, j \in DOMAIN recs :
      i < j =>
        /\ Weight(recs[i].priority) <= Weight(recs[j].priority)
        /\ Weight(recs[i].priority) = Weight(recs[j].priority) =>
             recs[i].estimated_quality_gain >= recs[j].estimated_quality_gain

\* A list of five recommendations of more than one priority that holds two
\* of equal priority and different gain.
C17_Witness ==
  /\ Recommended
  /\ Len(recs) = 5
  /\ recs[1].priority # recs[5].priority
  /\ \E i \in 1..4 :
       /\ recs[i].priority = recs[i + 1].priority
       /\ recs[i].estimated_quality_gain > recs[i + 1].estimated_quality_gain

(***************************************************************************)
(* C18. Each of offload_to_memory, break_into_subtasks,                    *)
(* session_checkpoint and verify_outputs is in the list exactly when its   *)
(* risk signal is high or critical, at most once, and with the priority    *)
(* equal to that risk level.                                               *)
(***************************************************************************)
MirrorsRisk(action, risk) ==
  /\ Cardinality(WithAction(action)) = (IF Elevated(risk) THEN 1 ELSE 0)
  /\ \A i \in WithAction(action) : recs[i].priority = risk

C18_RiskTriggersMirrorRisk ==
  Recommended =>
    /\ MirrorsRisk("offload_to_memory", assessment.quality_estimate.middle_content_risk)
    /\ MirrorsRisk("break_into_subtasks", assessment.session_fatigue.tool_call_burden)
    /\ MirrorsRisk("session_checkpoint", assessment.session_fatigue.session_length_risk)
    /\ MirrorsRisk("verify_outputs",
                   assessment.quality_estimate.estimated_hallucination_risk)

\* offload_to_memory was emitted as critical next to a verify_outputs
\* emitted as high, without the two other risk recommendations.
C18_Witness ==
  /\ Recommended
  /\ assessment.quality_estimate.middle_content_risk = "critical"
  /\ assessment.quality_estimate.estimated_hallucination_risk = "high"
  /\ Emitted("critical", "offload_to_memory", 8)
  /\ Emitted("high", "verify_outputs", 5)
  /\ WithAction("break_into_subtasks") = {}
  /\ WithAction("session_checkpoint") = {}

(***************************************************************************)
(* C19. For every input with tokenCount > 0, toolCallsCount >= 0,          *)
(* sessionDurationMinutes >= 0 and a well-formed profile, assessHealth     *)
(* returns an integer health_score between 0 and 100.                      *)
(***************************************************************************)
C19_ScoreWithinBounds ==
  (/\ Assessed
   /\ input.tokenCount > 0
   /\ Coalesce(input.toolCallsCount, Num(0)).num >= 0
   /\ Coalesce(input.sessionDurationMinutes, Num(0)).num >= 0
   /\ IsProfile(resolved))
    => assessment.health_score \in 0..100

\* The lowest score: past maxTokens with more than 30 tool calls after more
\* than 90 minutes.
C19_Witness ==
  /\ Assessed
  /\ input.tokenCount >= resolved.maxTokens
  /\ input.toolCallsCount = Num(31)
  /\ input.sessionDurationMinutes = Num(91)
  /\ assessment.health_score = 16

(***************************************************************************)
(* C20. In every assessment status is "healthy" exactly when health_score  *)
(* >= 70, "warning" exactly when 40 <= health_score < 70 and "danger"      *)
(* exactly when health_score < 40.                                         *)
(***************************************************************************)
C20_StatusFollowsScore ==
  Assessed =>
    /\ assessment.status = "healthy" <=> assessment.health_score >= 70
    /\ assessment.status = "warning" <=>
         (40 <= assessment.health_score /\ assessment.health_score < 70)
    /\ assessment.status = "danger" <=> assessment.health_score < 40

\* An assessment of score 69 is a warning.
C20_Witness ==
  /\ Assessed
  /\ assessment.health_score = 69
  /\ assessment.status = "warning"

(***************************************************************************)
(* The degradation curve.                                                  *)
(***************************************************************************)
Sampled == stage = "sampled"

\* C21 as stated: for every profile the quality multiplier never increases
\* as tokenCount grows, is 1.0 at every tokenCount up to degradationOnset and
\* is 0.2 at every tokenCount from maxTokens on.
C21_FlatThenFloor ==
  Sampled =>
    /\ curve.qHi <= curve.qLo
    /\ (curve.lo <= resolved.degradationOnset => curve.qLo = 1000)
    /\ (curve.lo >= resolved.maxTokens => curve.qLo = 200)

\* C21 amended: the quality multiplier never increases as tokenCount grows,
\* is 1.0 at every tokenCount up to degradationOnset, and is 0.2 at every
\* tokenCount from maxTokens on that is above degradationOnset; where the
\* two ranges meet (degradationOnset = maxTokens) it is 1.0.
C21_FlatThenFloorAboveOnset ==
  Sampled =>
    /\ curve.qHi <= curve.qLo
    /\ \A t \in {curve.lo, curve.hi} :
         LET q == IF t = curve.lo THEN curve.qLo ELSE curve.qHi
         IN  /\ t <= resolved.degradationOnset => q = 1000
             /\ (t >= resolved.maxTokens /\ t > resolved.degradationOnset) => q = 200

\* A curve sampled at two points strictly inside the degrading range, the
\* later one strictly worse and still above the floor.
C21_Witness ==
  /\ Sampled
  /\ resolved.degradationOnset < curve.lo
  /\ curve.lo < curve.hi
  /\ curve.hi < resolved.maxTokens
  /\ curve.qHi < curve.qLo
  /\ curve.qLo < 1000
  /\ curve.qHi > 200

(***************************************************************************)
(* The assessment's fields.                                                *)
(***************************************************************************)
\* A count the caller left out counts as 0.
Given(count) == IF count = Undefined THEN 0 ELSE count.num

ToolBand(count) ==
  IF count <= 5 THEN [risk |-> "low", score |-> 20]
  ELSE IF count <= 15 THEN [risk |-> "moderate", score |-> 15]
  ELSE IF count <= 30 THEN [risk |-> "high", score |-> 8]
  ELSE [risk |-> "critical", score |-> 3]

SessionBand(minutes) ==
  IF minutes <= 15 THEN [risk |-> "low", score |-> 15]
  ELSE IF minutes <= 45 THEN [risk |-> "moderate", score |-> 12]
  ELSE IF minutes <= 90 THEN [risk |-> "high", score |-> 6]
  ELSE [risk |-> "critical", score |-> 2]

\* health_score from the two curve values and the two band scores: the
\* weighted sum in thousandths of a point, clamped to 0..100 and rounded.
ScoreOf(toolScore, sessionScore) ==
  LET q == calculateQualityMultiplier(input.tokenCount, resolved)
      r == estimateRetrievalAccuracy(input.tokenCount, resolved)
      total == q * 40 + r * 25 + 1000 * (toolScore + sessionScore)
  IN  (Max(0, Min(100000, total)) + 500) \div 1000

\* C22. In every assessment tool_call_burden and the tool score that went
\* into health_score come from the same band of the tool-call count (<= 5
\* low/20, <= 15 moderate/15, <= 30 high/8, above critical/3), and
\* session_length_risk and the session score from the same band of the
\* minutes (<= 15 low/15, <= 45 moderate/12, <= 90 high/6, above
\* critical/2); an omitted count is banded as 0.
C22_BurdenAndScoreShareBands ==
  Assessed =>
    LET tool == ToolBand(Given(input.toolCallsCount))
        session == SessionBand(Given(input.sessionDurationMinutes))
    IN  /\ assessment.session_fatigue.tool_call_burden = tool.risk
        /\ assessment.session_fatigue.session_length_risk = session.risk
        /\ assessment.health_score = ScoreOf(tool.score, session.score)

\* An assessment just above a threshold of each scale (6 calls, 91 minutes),
\* and one with both counts omitted.
C22_Witness ==
  /\ Assessed
  /\ \/ /\ input.toolCallsCount = Num(6)
        /\ input.sessionDurationMinutes = Num(91)
        /\ assessment.session_fatigue.tool_call_burden = "moderate"
        /\ assessment.session_fatigue.session_length_risk = "critical"
        /\ assessment.health_score = ScoreOf(15, 2)
        /\ assessment.health_score # ScoreOf(20, 2)
     \/ /\ input.toolCallsCount = Undefined
        /\ input.sessionDurationMinutes = Undefined
        /\ assessment.session_fatigue.tool_call_burden = "low"
        /\ assessment.health_score = ScoreOf(20, 15)
        /\ input.tokenCount = 190000

\* C23 as stated: current is the input tokenCount, max_effective and
\* danger_zone_starts_at are the profile's dangerZone, percentage is
\* round(tokenCount / dangerZone * 1000) / 10, and percentage exceeds 100
\* whenever tokenCount is above dangerZone.
C23_OverHundredAboveDangerZone ==
  Assessed =>
    LET u == assessment.token_utilization
    IN  /\ u.current = input.tokenCount
        /\ u.max_effective = resolved.dangerZone
        /\ u.danger_zone_starts_at = resolved.dangerZone
        /\ u.percentage = (input.tokenCount * 1000 + resolved.dangerZone \div 2)
                            \div resolved.dangerZone
        /\ input.tokenCount > resolved.dangerZone => u.percentage > 1000

\* C23 amended: the same four fields; percentage is at least 100 whenever
\* tokenCount is at least dangerZone, and exceeds 100 exactly when tokenCount
\* is above dangerZone by at least dangerZone / 2000 (the quotient rounds to
\* more than 1000 tenths).
C23_HundredFromDangerZone ==
  Assessed =>
    LET u == assessment.token_utilization
        dz == resolved.dangerZone
        t == input.tokenCount
    IN  /\ u.current = t
        /\ u.max_effective = dz
        /\ u.danger_zone_starts_at = dz
        /\ u.percentage = (t * 1000 + dz \div 2) \div dz
        /\ t >= dz => u.percentage >= 1000
        /\ u.percentage > 1000 <=> t - dz >= (dz + 1999) \div 2000

\* An assessment of a token count just above dangerZone whose percentage is
\* exactly 100.0, and one far above whose percentage exceeds 100.
C23_Witness ==
  /\ Assessed
  /\ input.tokenCount > resolved.dangerZone
  /\ assessment.token_utilization.max_effective < resolved.maxTokens
  /\ assessment.token_utilization.percentage = 1000

(***************************************************************************)
(* C24. Every value a completed resolveModelProfile call returned,         *)
(* whether curated, the fallback, synthesized from a fetched context       *)
(* length or read from the cache, is a profile with                        *)
(* 0 < degradationOnset <= dangerZone <= maxTokens.                        *)
(***************************************************************************)
C24_ReturnedProfilesOrdered ==
  \A k \in AllCalls :
    k.pc = "done" =>
      /\ IsProfile(k.result)
      /\ 0 < k.result.degradationOnset
      /\ k.result.degradationOnset <= k.result.dangerZone
      /\ k.result.dangerZone <= k.result.maxTokens

(***************************************************************************)
(* The health history.                                                     *)
(***************************************************************************)
Queried == history.limit > 0

\* The rowids of the agent's checks that were recorded when the query ran.
RecordedFor(agentId) ==
  {i \in 1..history.asOf : health_checks[i].agent_id = agentId}

\* The agent's checks, the one recorded last first.
NewestFirst(agentId) ==
  LET ids == RecordedFor(agentId)
  IN  [k \in 1..Cardinality(ids) |->
         health_checks[CHOOSE i \in ids : Cardinality({j \in ids : j > i}) = k - 1]]

\* C25. getHistory(agentId, limit) returns only checks of that agent, at
\* most limit of them, and they are the checks of the agent recorded last,
\* the newest first, also when several were recorded within one second.
C25_HistoryNewestFirst ==
  Queried =>
    /\ \A i \in DOMAIN history.rows : history.rows[i].agent_id = history.agentId
    /\ Len(history.rows) <= history.limit
    /\ history.rows = Take(NewestFirst(history.agentId), history.limit)

(***************************************************************************)
(* The check_my_health handler and the store.                              *)
(***************************************************************************)
Attempts(method) == {i \in DOMAIN attempts : attempts[i].method = method}

Responded == stage = "responded"

\* The handler returned the assessment of its input with the
\* recommendations generated from it.
ReturnedResult ==
  /\ Responded
  /\ assessment = assessHealth(input, resolved)
  /\ recs = generateRecommendations(assessment)
  /\ response = assessment @@ [recommendations |-> recs]

RecordThrew == \E i \in Attempts("record") : attempts[i].threw

\* C26. An exception thrown by store.record or store.recordCall never
\* fails the health check: once store.record has thrown the handler is at
\* its next statement or beyond and store.recordCall is still attempted
\* (when it has got that far), once store.recordCall has thrown the handler
\* is at its log line or has returned, and what it returns is the assessment
\* with its recommendations.
C26_StoreFailuresSwallowed ==
  /\ \A i \in DOMAIN attempts :
       attempts[i].threw =>
         \/ attempts[i].method = "record" /\ stage \in {"recorded", "logged", "responded"}
         \/ attempts[i].method = "recordCall" /\ stage \in {"logged", "responded"}
  /\ (RecordThrew /\ stage \in {"logged", "responded"}) => Attempts("recordCall") # {}
  /\ Responded => ReturnedResult

\* A check whose store.record and store.recordCall both threw and that
\* returned its result, with nothing stored.
C26_Witness ==
  /\ ReturnedResult
  /\ Len(attempts) = 2
  /\ attempts[1] = [method |-> "record", agentId |-> Str("agent-1"), threw |-> TRUE]
  /\ attempts[2] = [method |-> "recordCall", agentId |-> Str("agent-1"), threw |-> TRUE]
  /\ health_checks = << >>
  /\ service_calls = << >>

\* C27. With a store, a check_my_health call attempts exactly one
\* service-call record, with agent "anonymous" when agent_id is omitted, and
\* a health-history record only when agent_id is provided; without a store
\* nothing is recorded and the call still returns its result.
C27_OneServiceCallPerCheck ==
  /\ Cardinality(Attempts("recordCall")) <= 1
  /\ \A i \in Attempts("recordCall") :
       params.agent_id = Undefined => attempts[i].agentId = Str("anonymous")
  /\ (Attempts("record") # {} \/ health_checks # << >>) => params.agent_id # Undefined
  /\ ~params.store => (attempts = << >> /\ health_checks = << >> /\ service_calls = << >>)
  /\ stage \in {"logged", "responded"} =>
       (params.store <=> Cardinality(Attempts("recordCall")) = 1)
  /\ (Responded /\ ~params.store) => ReturnedResult

\* An anonymous check on a server with a store: one service call stored
\* for "anonymous", no health check stored.
C27_Witness ==
  /\ Responded
  /\ params.store
  /\ params.agent_id = Undefined
  /\ Len(service_calls) = 1
  /\ service_calls[1].agent_id = Str("anonymous")
  /\ health_checks = << >>
  /\ Len(attempts) = 1

(***************************************************************************)
(* The in-flight map.                                                      *)
(***************************************************************************)
\* Call c started the fetch the marker of (r, m) stands for and has not
\* returned.
Installed(c, r, m) ==
  /\ calls[c].resolver = r
  /\ calls[c].model = m
  /\ calls[c].via = "fetched"
  /\ calls[c].pc = "awaitOwn"
  /\ calls[c].promise = inFlightRequests[r][m]

MarkerHasPendingInitiator ==
  \A r \in Resolvers, m \in ModelStrings :
    inFlightRequests[r][m] # 0 => \E c \in DOMAIN calls : Installed(c, r, m)

EmptyWhenIdle ==
  (\A c \in DOMAIN calls : calls[c].pc = "done") =>
    \A r \in Resolvers, m \in ModelStrings : inFlightRequests[r][m] = 0

\* A step that removes the marker of (r, m) is the return of the call that
\* installed it.
RemovedByInstaller ==
  \A r \in Resolvers, m \in ModelStrings :
    (inFlightRequests[r][m] # 0 /\ inFlightRequests'[r][m] = 0) =>
      \E c \in DOMAIN calls : Installed(c, r, m) /\ calls'[c].pc = "done"

\* C28. On every resolver a marker exists for a key only while a call for
\* that key that started a fetch has not returned; a marker is removed only
\* by the call that installed it; and when no call is outstanding the
\* in-flight map is empty.
C28_MarkerLivesWithItsCall ==
  /\ [](MarkerHasPendingInitiator /\ EmptyWhenIdle)
  /\ [][RemovedByInstaller]_vars

\* On one resolver a call that fetched has returned and its marker is gone,
\* while the marker of another key stands for a call still waiting.
C28_Witness ==
  \E r \in Resolvers, c, d \in DOMAIN calls :
    /\ calls[c].resolver = r /\ calls[d].resolver = r
    /\ calls[c].via = "fetched" /\ calls[c].pc = "done"
    /\ inFlightRequests[r][calls[c].model] = 0
    /\ calls[d].model # calls[c].model
    /\ Installed(d, r, calls[d].model)

\* The calls whose step this is: the call that starts and the calls that
\* resume, and the promises that settle.
Stepping(m) ==
  {c \in DOMAIN calls' : calls'[c].model = m /\ (c \notin DOMAIN calls \/ calls'[c] # calls[c])}

Settling(m) ==
  {p \in DOMAIN promises :
     promises[p].key = m /\ promises[p].state = "fetching" /\ promises'[p].state = "settled"}

\* Every call waits for a fetch of its own key, and what a call that fetched
\* returns is decided by the outcome of that fetch alone.
OwnFetch ==
  \A c \in DOMAIN calls :
    LET p == calls[c].promise
    IN  /\ promises[p].key = calls[c].model
        /\ promises[p].resolver = calls[c].resolver
        /\ calls[c].pc = "done" =>
             calls[c].result = fetchAndCacheProfile(calls[c].model, promises[p].maxTokens)

\* A step changes the cache entry of key m only when a fetch for m settles,
\* and the marker of m on resolver r only by a call of r for m.
OwnKeyOnly ==
  \A m \in ModelStrings :
    /\ cache'[m] # cache[m] => Settling(m) # {}
    /\ \A r \in Resolvers :
         inFlightRequests'[r][m] # inFlightRequests[r][m] =>
           \E c \in Stepping(m) : calls'[c].resolver = r

\* C29. Resolution is isolated per key: a call for a key changes the cache
\* entry and the in-flight marker of that key only, concurrent resolutions
\* of distinct keys each have their own fetch, and the result of each is
\* decided by its own fetch, whatever the fetch of the other did.
C29_IsolatedPerKey ==
  /\ []OwnFetch
  /\ [][OwnKeyOnly]_vars

\* Two calls on one resolver for distinct keys, each with its own fetch: one
\* failed and returned the fallback, the other succeeded and returned its
\* heuristic profile.
C29_Witness ==
  \E c, d \in DOMAIN calls :
    /\ calls[c].resolver = calls[d].resolver
    /\ calls[c].model # calls[d].model
    /\ calls[c].via = "fetched" /\ calls[d].via = "fetched"
    /\ calls[c].promise # calls[d].promise
    /\ calls[c].pc = "done" /\ calls[d].pc = "done"
    /\ Failed(calls[c].promise) /\ calls[c].result = Other
    /\ Succeeded(calls[d].promise)
    /\ calls[d].result # Other
    /\ calls[d].result.name = calls[d].model

(***************************************************************************)
(* C30. For an assessment assessHealth produced with a curated, the        *)
(* fallback or a heuristic profile: when generateRecommendations returns   *)
(* the single recommendation "continue" the status is "healthy", and a     *)
(* "warning" or "danger" assessment has a recommendation other than        *)
(* "continue".                                                             *)
(***************************************************************************)
C30_ContinueAloneOnlyWhenHealthy ==
  Recommended =>
    /\ (Len(recs) = 1 /\ recs[1].action = "continue") => assessment.status = "healthy"
    /\ assessment.status \in {"warning", "danger"} =>
         \E i \in DOMAIN recs : recs[i].action # "continue"

\* The lowest score at which "continue" stands alone: moderate tool burden
\* and session length on a profile of base retrieval accuracy 0.88.
C30_Witness ==
  /\ Recommended
  /\ Len(recs) = 1
  /\ recs[1].action = "continue"
  /\ assessment.session_fatigue.tool_call_burden = "moderate"
  /\ assessment.session_fatigue.session_length_risk = "moderate"
  /\ assessment.health_score = 89
  /\ assessment.status = "healthy"

====
